---- MODULE Spec2Model ----
(***************************************************************************)
(* Yield-prediction and retraining engine of the Microgreen app.           *)
(*                                                                         *)
(* Modelled state                                                          *)
(*   real_csv   data/real_crops.csv, the real training corpus: the rows of *)
(*              the file, every cell as the text the file holds            *)
(*   model_dir  data/models/{rf_model.pkl, nn_model.h5, scaler.pkl,        *)
(*              seed_encoder.pkl}: for each file the version (the training *)
(*              run) whose object it holds                                 *)
(*   metadata   data/models/model_metadata.json                            *)
(*   backups    data/models/backups/<timestamp>/                           *)
(*   predictor  MLService.predictor, the object that serves predictions    *)
(*   pc, loc    position and local variables of every caller of            *)
(*              MLService.add_training_data                                *)
(*   rd         the caller of MLService.predict_yield                      *)
(*   crop_status, harvest_rows   Crop.status and the Harvest rows          *)
(*   number_of_trays, daily_logs Crop.number_of_trays and the DailyLog     *)
(*              rows of every crop                                        *)
(*   response   what the last request to an endpoint was answered         *)
(*   encoded    the seed_type and seed_encoded columns of the row the last *)
(*              prepare_features(fit_encoders=False) call was given        *)
(*   sr         the value of the last direct should_retrain call           *)
(* Bookkeeping, read by the properties only                                *)
(*   acked      ids of the rows whose to_csv has been executed             *)
(*   returned   the counts add_harvest_data has returned                   *)
(*   last_ok    len(df_real) of the last retrain_models that returned      *)
(*   failed     versions trained by a retrain_models call that raised      *)
(*   loc.done   the stages of retrain_models a caller has completed        *)
(*   trained    the samples of the last MicrogreensYieldPredictor.train    *)
(*              run with the weight the fit gave each, and the multiplier  *)
(*              retrain_models was called with                             *)
(* A version is the number of the MicrogreensYieldPredictor.train run that *)
(* produced an object; version 1 is the set train_model.py's main wrote.   *)
(***************************************************************************)
EXTENDS Integers, Sequences, FiniteSets, TLC

VARIABLES real_csv, model_dir, metadata, backups, clock,
          predictor, pc, loc, result, rd,
          crop_status, harvest_rows,
          sr, next_version, next_row, acked, returned, last_ok, failed,
          crashes, calls, trained, number_of_trays, daily_logs, response,
          encoded

vars == <<real_csv, model_dir, metadata, backups, clock,
          predictor, pc, loc, result, rd,
          crop_status, harvest_rows,
          sr, next_version, next_row, acked, returned, last_ok, failed,
          crashes, calls, trained, number_of_trays, daily_logs, response,
          encoded>>

----------------------------------------------------------------------------
(* Bounds of the model *)

\* rows the real corpus may hold when the service is constructed
InitRows == 9
\* add_training_data calls that build a row in one behaviour
MaxCalls == 2
\* process restarts in one behaviour
MaxCrashes == 1
\* Harvest rows in one behaviour
MaxHarvests == 1
\* largest min_new_samples should_retrain is called with directly
MaxThreshold == 12
\* largest corpus and largest recorded real_samples of the policy runs
PolicyRows == 12

\* largest Crop.number_of_trays
MaxTrays == 2
\* largest DailyLog.day_number
MaxDays == 2
\* rows of data/synthetic_crops.csv
SyntheticRows == 2
\* retrain_models calls made directly in one behaviour
MaxRetrains == 2
MaxTypeLen == 5

(* Program constants *)

\* retrain_models(real_data_weight=2.0), in units of 1.0
DefaultRealDataWeight == 2

\* MLService.add_training_data: should_retrain(min_new_samples=10)
MinNewSamples == 10

\* the callers of add_training_data that may run at the same time
Procs == {1, 2}
Crops == {1}
LogInputs == {"complete", "empty"}
\* the values of Seed.name a harvest is recorded with
SeedNames == {"Radish", "NA"}
\* the values of real_data_weight a caller of retrain_models passes, in units of 1.0
Weights == {1, 2, 3}
\* the one seed of the runs in which the content of the rows plays no part
OneSeed == {"Radish"}

\* the artifact files save_models writes before the metadata, in its order
SaveOrder == <<"rf_model.pkl", "nn_model.h5", "scaler.pkl", "seed_encoder.pkl">>
\* the files load_models reads, in its order
LoadOrder == <<"rf_model.pkl", "nn_model.h5", "scaler.pkl", "seed_encoder.pkl",
               "model_metadata.json">>
\* the files retrain_models copies to the backup directory, in its order
BackupOrder == <<"rf_model.pkl", "nn_model.h5", "model_metadata.json">>
ArtifactFiles == {SaveOrder[i] : i \in 1..Len(SaveOrder)}
AllFiles == {LoadOrder[i] : i \in 1..Len(LoadOrder)}

----------------------------------------------------------------------------
(* Values *)

\* model_metadata.json as save_models writes it: feature columns, weights and
\* seed types of version v, and no retraining keys
SavedMetadata(v) ==
    [ver |-> v, has_retrain |-> FALSE, real_samples |-> 0, last_retrain |-> 0]

\* a predictor object none of whose attributes is loaded yet
Unloaded == [f \in AllFiles |-> 0]

\* the local variables of a caller that is not inside add_training_data
NoLocals ==
    [row |-> [id |-> 0, crop |-> 0, seed_name |-> [nan |-> FALSE, s |-> ""],
              data_source |-> "real"], df |-> <<>>,
     num_samples |-> 0, sr_len |-> 0, n_real |-> 0,
     new |-> 0, ts |-> 0, i |-> 0, md |-> SavedMetadata(0), obj |-> Unloaded,
     done |-> <<>>]

----------------------------------------------------------------------------
(* ModelRetrainer.add_harvest_data *)

\* a cell of a DataFrame: a string, or the missing value NaN
Str(s) == [nan |-> FALSE, s |-> s]
NaN == [nan |-> TRUE, s |-> ""]

\* the texts pd.read_csv takes for a missing value (keep_default_na)
NaValues == {"", "#N/A", "N/A", "NA", "NULL", "NaN", "n/a", "nan", "null"}

\* pd.read_csv on one cell
ReadCell(text) == IF text \in NaValues THEN NaN ELSE Str(text)

\* DataFrame.to_csv on one cell (na_rep = '')
WriteCell(v) == IF v.nan THEN "" ELSE v.s

\* pd.read_csv(real_data_path): the DataFrame of the rows of the file
ReadCsv(csv) == [i \in 1..Len(csv) |-> [csv[i] EXCEPT !.seed_name = ReadCell(@)]]

\* df.to_csv(real_data_path, index=False): the rows of the file written
ToCsv(df) == [i \in 1..Len(df) |-> [df[i] EXCEPT !.seed_name = WriteCell(@)]]

\* the row add_harvest_data builds from crop_data: id and crop stand for the
\* columns that tell the harvest (timestamp, daily_logs_json, final_yield)
HarvestRow(id, c, name) ==
    [id |-> id, crop |-> c, seed_name |-> Str(name), data_source |-> "real"]

\* os.path.exists(self.real_data_path): the file is created by the first
\* to_csv with one row and is never emptied or removed
CsvExists(csv) == csv # <<>>

\* pd.concat([df_existing, df_new]) or df_new alone
Combined(df_existing, row) == df_existing \o <<row>>

\* the corpus after n calls of add_harvest_data, one after the other, with the
\* harvests of earlier crops (crop 0)
Rows(n) == ToCsv([i \in 1..n |-> HarvestRow(i, 0, "Radish")])

\* MLService.add_training_data entry and the feature computation of
\* add_harvest_data: an empty daily_logs list divides by zero
AddTrainingData(p, c, name, logs) ==
    /\ pc[p] = "idle"
    /\ IF logs = "empty"
       THEN /\ result' = [result EXCEPT ![p] = "raised"]
            /\ loc' = [loc EXCEPT ![p] = NoLocals]
            /\ UNCHANGED <<pc, next_row, calls>>
       ELSE /\ calls < MaxCalls
            /\ calls' = calls + 1
            /\ next_row' = next_row + 1
            /\ pc' = [pc EXCEPT ![p] = "ahd_read"]
            /\ loc' = [loc EXCEPT ![p] = [NoLocals EXCEPT !.row = HarvestRow(next_row, c, name)]]
            /\ result' = [result EXCEPT ![p] = "none"]
    /\ UNCHANGED <<real_csv, model_dir, metadata, backups, clock, predictor, rd,
                   crop_status, harvest_rows, sr, next_version, acked, returned,
                   last_ok, failed, crashes, trained, number_of_trays,
                   daily_logs, response, encoded>>

\* if os.path.exists(real_data_path): df_existing = pd.read_csv(...)
AhdRead(p) ==
    /\ pc[p] = "ahd_read"
    /\ pc' = [pc EXCEPT ![p] = "ahd_write"]
    /\ loc' = [loc EXCEPT ![p].df = ReadCsv(real_csv)]
    /\ UNCHANGED <<real_csv, model_dir, metadata, backups, clock, predictor,
                   result, rd, crop_status, harvest_rows, sr, next_version,
                   next_row, acked, returned, last_ok, failed, crashes, calls,
                   trained, number_of_trays, daily_logs, response, encoded>>

\* df_combined.to_csv(real_data_path); return len(df_combined)
AhdWrite(p) ==
    /\ pc[p] = "ahd_write"
    /\ real_csv' = ToCsv(Combined(loc[p].df, loc[p].row))
    /\ loc' = [loc EXCEPT ![p].df = <<>>,
                          ![p].num_samples = Len(Combined(loc[p].df, loc[p].row))]
    /\ acked' = acked \cup {loc[p].row.id}
    /\ returned' = returned \cup {Len(Combined(loc[p].df, loc[p].row))}
    /\ pc' = [pc EXCEPT ![p] = "sr_csv"]
    /\ UNCHANGED <<model_dir, metadata, backups, clock, predictor, result, rd,
                   crop_status, harvest_rows, sr, next_version, next_row,
                   last_ok, failed, crashes, calls, trained, number_of_trays,
                   daily_logs, response, encoded>>

\* df_combined.to_csv raises after it has opened the file for writing (a full
\* disk, an I/O error): open() has truncated the file, and the file keeps the
\* rows written before the error
AhdWriteCut(p) ==
    /\ pc[p] = "ahd_write"
    /\ loc[p].df # <<>>
    /\ \E k \in 1..Len(Combined(loc[p].df, loc[p].row)) :
          real_csv' = SubSeq(ToCsv(Combined(loc[p].df, loc[p].row)), 1, k)
    /\ pc' = [pc EXCEPT ![p] = "idle"]
    /\ result' = [result EXCEPT ![p] = "raised"]
    /\ loc' = [loc EXCEPT ![p] = NoLocals]
    /\ UNCHANGED <<model_dir, metadata, backups, clock, predictor, rd,
                   crop_status, harvest_rows, sr, next_version, next_row, acked,
                   returned, last_ok, failed, crashes, calls, trained,
                   number_of_trays, daily_logs, response, encoded>>

----------------------------------------------------------------------------
(* ModelRetrainer.should_retrain *)

\* os.path.exists(metadata_path)
MetadataExists(md) == md.ver # 0

\* metadata.get('real_samples', 0)
GetRealSamples(md) == IF md.has_retrain THEN md.real_samples ELSE 0

\* ShouldRetrain with > for >=
ShouldRetrainStrict(exists, n, md, min_new_samples) ==
    IF ~exists THEN FALSE
    ELSE IF md.ver # 0
         THEN n - (IF md.has_retrain THEN md.real_samples ELSE 0) > min_new_samples
         ELSE n > min_new_samples

\* should_retrain(min_new_samples) on a corpus file that exists or not and holds
\* n rows, and the metadata md
ShouldRetrain(exists, n, md, min_new_samples) ==
    IF ~exists THEN FALSE
    ELSE IF MetadataExists(md) THEN n - GetRealSamples(md) >= min_new_samples
    ELSE n >= min_new_samples

\* a caller leaves add_training_data with outcome r
Return(p, r) ==
    /\ pc' = [pc EXCEPT ![p] = "idle"]
    /\ result' = [result EXCEPT ![p] = r]

\* if not os.path.exists(real_data_path): return False; df_real = pd.read_csv(...)
SrCsv(p) ==
    /\ pc[p] = "sr_csv"
    /\ IF CsvExists(real_csv)
       THEN /\ pc' = [pc EXCEPT ![p] = "sr_meta"]
            /\ loc' = [loc EXCEPT ![p].sr_len = Len(real_csv), ![p].num_samples = 0]
            /\ UNCHANGED result
       ELSE /\ Return(p, "not_triggered")
            /\ loc' = [loc EXCEPT ![p] = NoLocals]
    /\ UNCHANGED <<real_csv, model_dir, metadata, backups, clock, predictor, rd,
                   crop_status, harvest_rows, sr, next_version, next_row, acked,
                   returned, last_ok, failed, crashes, calls, trained,
                   number_of_trays, daily_logs, response, encoded>>

\* the metadata read and the comparison of should_retrain, and the branch of
\* add_training_data on its value
SrMeta(p) ==
    /\ pc[p] = "sr_meta"
    /\ IF ShouldRetrain(TRUE, loc[p].sr_len, metadata, MinNewSamples)
       THEN /\ pc' = [pc EXCEPT ![p] = "rt_load"]
            /\ UNCHANGED <<loc, result>>
       ELSE /\ Return(p, "not_triggered")
            /\ loc' = [loc EXCEPT ![p] = NoLocals]
    /\ UNCHANGED <<real_csv, model_dir, metadata, backups, clock, predictor, rd,
                   crop_status, harvest_rows, sr, next_version, next_row, acked,
                   returned, last_ok, failed, crashes, calls, trained,
                   number_of_trays, daily_logs, response, encoded>>

\* add_harvest_data called on its own and run to its return
add_harvest_data(c, name) ==
    /\ Len(real_csv) < PolicyRows
    /\ real_csv' = ToCsv(Combined(ReadCsv(real_csv), HarvestRow(next_row, c, name)))
    /\ next_row' = next_row + 1
    /\ acked' = acked \cup {next_row}
    /\ returned' = returned \cup {Len(Combined(ReadCsv(real_csv), HarvestRow(next_row, c, name)))}
    /\ sr' = [min_new_samples |-> 0, value |-> FALSE]
    /\ UNCHANGED <<model_dir, metadata, backups, clock, predictor, pc, loc,
                   result, rd, crop_status, harvest_rows, next_version, last_ok,
                   failed, crashes, calls, trained, number_of_trays, daily_logs,
                   response, encoded>>

\* should_retrain(min_new_samples) called on its own
should_retrain(min_new_samples) ==
    /\ sr' = [min_new_samples |-> min_new_samples,
              value |-> ShouldRetrain(CsvExists(real_csv), Len(real_csv), metadata,
                                      min_new_samples)]
    /\ UNCHANGED <<real_csv, model_dir, metadata, backups, clock, predictor, pc,
                   loc, result, rd, crop_status, harvest_rows, next_version,
                   next_row, acked, returned, last_ok, failed, crashes, calls,
                   trained, number_of_trays, daily_logs, response, encoded>>

----------------------------------------------------------------------------
(* ModelRetrainer.retrain_models *)

\* pd.read_csv of the synthetic and of the real corpus; len(df_real)
RtLoad(p) ==
    /\ pc[p] = "rt_load"
    /\ pc' = [pc EXCEPT ![p] = "rt_train"]
    /\ loc' = [loc EXCEPT ![p].n_real = Len(real_csv)]
    /\ UNCHANGED <<real_csv, model_dir, metadata, backups, clock, predictor,
                   result, rd, crop_status, harvest_rows, sr, next_version,
                   next_row, acked, returned, last_ok, failed, crashes, calls,
                   trained, number_of_trays, daily_logs, response, encoded>>

\* feature_cols of prepare_features, seed_type standing for seed_encoded
FeatureColumns ==
    {"seed_type", "base_yield", "growth_days", "ideal_temp", "ideal_humidity",
     "avg_temp", "avg_humidity", "temp_deviation", "humidity_deviation",
     "watering_consistency", "temp_stress_days", "humidity_stress_days",
     "missed_watering_days", "max_temp", "min_temp", "max_humidity", "min_humidity",
     "latest_height_mm", "seeding_density_g_cm2"}

\* the keys of the row add_harvest_data writes
HarvestColumns ==
    {"seed_type", "seed_name", "difficulty", "base_yield", "growth_days",
     "ideal_temp", "ideal_humidity", "avg_temp", "avg_humidity", "temp_deviation",
     "humidity_deviation", "watering_consistency", "temp_stress_days",
     "humidity_stress_days", "missed_watering_days", "max_temp", "min_temp",
     "max_humidity", "min_humidity", "final_yield", "yield_efficiency",
     "daily_logs_json", "timestamp", "data_source"}

\* the columns of synthetic_crops.csv: the file train_model.py trained version 1
\* from, so it holds every feature column
SyntheticColumns == FeatureColumns \cup {"seed_name", "final_yield"}

\* df_combined: df_synthetic with data_source = 'synthetic' and sample_weight = 1.0,
\* then the n_real rows of df_real with sample_weight = real_data_weight; a row
\* holds a value in the columns of its file and NaN in the others of the concat
CombinedCorpus(n_real, real_data_weight) ==
    [i \in 1..SyntheticRows |-> [data_source |-> "synthetic", sample_weight |-> 1,
                                 columns |-> SyntheticColumns]]
    \o [i \in 1..n_real |-> [data_source |-> "real", sample_weight |-> real_data_weight,
                              columns |-> HarvestColumns]]

\* prepare_features: X = df[feature_cols].values; sample_weight is none of the
\* feature columns (data_source stands for the feature values of the row, empty
\* for the feature columns in which the row holds NaN)
PrepareFeatures(df) ==
    [i \in 1..Len(df) |-> [data_source |-> df[i].data_source,
                           empty |-> FeatureColumns \ df[i].columns]]

\* rf_model.fit(X_train, y_train) and nn_model.fit(X_train, y_train, ...): called
\* with no sample_weight, so that every sample weighs 1
Fitted(X) ==
    [i \in 1..Len(X) |-> [data_source |-> X[i].data_source, empty |-> X[i].empty,
                          weight |-> 1]]

\* MicrogreensYieldPredictor.train(df): the samples and the weight each is fitted with
Train(df) == Fitted(PrepareFeatures(df))

\* predictor = MicrogreensYieldPredictor(); metrics = predictor.train(df_combined)
RtTrain(p) ==
    /\ pc[p] = "rt_train"
    /\ pc' = [pc EXCEPT ![p] = "rt_stamp"]
    /\ trained' = [real_data_weight |-> DefaultRealDataWeight,
                   samples |-> Train(CombinedCorpus(loc[p].n_real, DefaultRealDataWeight))]
    /\ loc' = [loc EXCEPT ![p].new = next_version,
                          ![p].done = Append(@, "train")]
    /\ next_version' = next_version + 1
    /\ UNCHANGED <<real_csv, model_dir, metadata, backups, clock, predictor,
                   result, rd, crop_status, harvest_rows, sr, next_row, acked,
                   returned, last_ok, failed, crashes, calls, number_of_trays,
                   daily_logs, response, encoded>>

\* an empty backup directory
EmptyDir == [files |-> [f \in ArtifactFiles |-> 0], meta |-> SavedMetadata(0)]

\* timestamp = datetime.now() to the second; os.makedirs(backup_dir, exist_ok=True)
RtStamp(p) ==
    /\ pc[p] = "rt_stamp"
    /\ \E t \in {clock, clock + 1} :
          /\ clock' = t
          /\ loc' = [loc EXCEPT ![p].ts = t]
          /\ backups' = [d \in DOMAIN backups \cup {t} |->
                            IF d \in DOMAIN backups THEN backups[d] ELSE EmptyDir]
    /\ pc' = [pc EXCEPT ![p] = "rt_backup"]
    /\ UNCHANGED <<real_csv, model_dir, metadata, predictor, result, rd,
                   crop_status, harvest_rows, sr, next_version, next_row, acked,
                   returned, last_ok, failed, crashes, calls, trained,
                   number_of_trays, daily_logs, response, encoded>>

\* shutil.copy(src, backup_dir/file) of one file into directory d
Copied(d, f) ==
    IF f = "model_metadata.json"
    THEN IF MetadataExists(metadata) THEN [d EXCEPT !.meta = metadata] ELSE d
    ELSE IF model_dir[f] # 0 THEN [d EXCEPT !.files[f] = model_dir[f]] ELSE d

\* the loop over rf_model.pkl, nn_model.h5, model_metadata.json
RECURSIVE CopiedAll(_, _)
CopiedAll(d, i) ==
    IF i > Len(BackupOrder) THEN d ELSE CopiedAll(Copied(d, BackupOrder[i]), i + 1)

\* the copies of the old files into the backup directory
RtBackup(p) ==
    /\ pc[p] = "rt_backup"
    /\ backups' = [backups EXCEPT ![loc[p].ts] = CopiedAll(@, 1)]
    /\ loc' = [loc EXCEPT ![p].i = 1, ![p].done = Append(@, "backup")]
    /\ pc' = [pc EXCEPT ![p] = "save"]
    /\ UNCHANGED <<real_csv, model_dir, metadata, clock, predictor, result, rd,
                   crop_status, harvest_rows, sr, next_version, next_row, acked,
                   returned, last_ok, failed, crashes, calls, trained,
                   number_of_trays, daily_logs, response, encoded>>

----------------------------------------------------------------------------
(* MicrogreensYieldPredictor.save_models, and the rest of retrain_models *)

\* SaveModels in a retrain_models that returns right after save_models, so that
\* the caller reloads the predictor before the metadata update
SaveModelsThenReload(p) ==
    /\ pc[p] = "save"
    /\ IF loc[p].i <= Len(SaveOrder)
       THEN /\ model_dir' = [model_dir EXCEPT ![SaveOrder[loc[p].i]] = loc[p].new]
            /\ loc' = [loc EXCEPT ![p].i = @ + 1]
            /\ UNCHANGED <<metadata, pc>>
       ELSE /\ metadata' = SavedMetadata(loc[p].new)
            /\ loc' = [loc EXCEPT ![p].i = 1, ![p].done = Append(@, "save")]
            /\ pc' = [pc EXCEPT ![p] = "load"]
            /\ UNCHANGED model_dir
    /\ UNCHANGED <<real_csv, backups, clock, predictor, result, rd, crop_status,
                   harvest_rows, sr, next_version, next_row, acked, returned,
                   last_ok, failed, crashes, calls, trained, number_of_trays,
                   daily_logs, response, encoded>>

\* joblib.dump / nn_model.save of one artifact file, then the metadata document
SaveModels(p) ==
    /\ pc[p] = "save"
    /\ IF loc[p].i <= Len(SaveOrder)
       THEN /\ model_dir' = [model_dir EXCEPT ![SaveOrder[loc[p].i]] = loc[p].new]
            /\ loc' = [loc EXCEPT ![p].i = @ + 1]
            /\ UNCHANGED <<metadata, pc>>
       ELSE /\ metadata' = SavedMetadata(loc[p].new)
            /\ loc' = [loc EXCEPT ![p].i = 0, ![p].done = Append(@, "save")]
            /\ pc' = [pc EXCEPT ![p] = "rt_mread"]
            /\ UNCHANGED model_dir
    /\ UNCHANGED <<real_csv, backups, clock, predictor, result, rd, crop_status,
                   harvest_rows, sr, next_version, next_row, acked, returned,
                   last_ok, failed, crashes, calls, trained, number_of_trays,
                   daily_logs, response, encoded>>

\* save_models from its first statement to its last, with no step of another
\* caller in between
SaveModelsAll(p) ==
    /\ pc[p] = "save"
    /\ model_dir' = [f \in ArtifactFiles |-> loc[p].new]
    /\ metadata' = SavedMetadata(loc[p].new)
    /\ loc' = [loc EXCEPT ![p].i = 0, ![p].done = Append(@, "save")]
    /\ pc' = [pc EXCEPT ![p] = "rt_mread"]
    /\ UNCHANGED <<real_csv, backups, clock, predictor, result, rd, crop_status,
                   harvest_rows, sr, next_version, next_row, acked, returned,
                   last_ok, failed, crashes, calls, trained, number_of_trays,
                   daily_logs, response, encoded>>

\* with open(metadata_path, 'r'): metadata = json.load(f)
RtMetaRead(p) ==
    /\ pc[p] = "rt_mread"
    /\ loc' = [loc EXCEPT ![p].md = metadata]
    /\ pc' = [pc EXCEPT ![p] = "rt_mwrite"]
    /\ UNCHANGED <<real_csv, model_dir, metadata, backups, clock, predictor,
                   result, rd, crop_status, harvest_rows, sr, next_version,
                   next_row, acked, returned, last_ok, failed, crashes, calls,
                   trained, number_of_trays, daily_logs, response, encoded>>

\* the document retrain_models writes back: what it read, with last_retrain,
\* total_samples, real_samples and retraining_metrics set
Retrained(md, n_real, ts) ==
    [md EXCEPT !.has_retrain = TRUE, !.real_samples = n_real, !.last_retrain = ts]

\* json.dump(metadata, f) and the return of retrain_models with success = True
RtMetaWrite(p) ==
    /\ pc[p] = "rt_mwrite"
    /\ metadata' = Retrained(loc[p].md, loc[p].n_real, loc[p].ts)
    /\ last_ok' = loc[p].n_real
    /\ loc' = [loc EXCEPT ![p].i = 1, ![p].done = Append(@, "metadata")]
    /\ pc' = [pc EXCEPT ![p] = "load"]
    /\ UNCHANGED <<real_csv, model_dir, backups, clock, predictor, result, rd,
                   crop_status, harvest_rows, sr, next_version, next_row, acked,
                   returned, failed, crashes, calls, trained, number_of_trays,
                   daily_logs, response, encoded>>

\* retrain_models(real_data_weight) called on its own (retrain.py as a script)
\* and run to its return with no statement raising
retrain_models(real_data_weight) ==
    /\ next_version <= MaxRetrains + 1
    /\ next_version' = next_version + 1
    /\ trained' = [real_data_weight |-> real_data_weight,
                   samples |-> Train(CombinedCorpus(Len(real_csv), real_data_weight))]
    /\ \E t \in {clock, clock + 1} :
          /\ clock' = t
          /\ backups' = [d \in DOMAIN backups \cup {t} |->
                            IF d = t
                            THEN CopiedAll(IF d \in DOMAIN backups THEN backups[d]
                                           ELSE EmptyDir, 1)
                            ELSE backups[d]]
          /\ metadata' = Retrained(SavedMetadata(next_version), Len(real_csv), t)
    /\ model_dir' = [f \in ArtifactFiles |-> next_version]
    /\ last_ok' = Len(real_csv)
    /\ UNCHANGED <<real_csv, predictor, pc, loc, result, rd, crop_status,
                   harvest_rows, sr, next_row, acked, returned, failed, crashes,
                   calls, number_of_trays, daily_logs, response, encoded>>

----------------------------------------------------------------------------
(* MicrogreensYieldPredictor.load_models and MLService *)

\* the content of one file of the model directory, as load_models reads it
FileVersion(f) == IF f = "model_metadata.json" THEN metadata.ver ELSE model_dir[f]

\* YieldPredictionService(model_dir): one read of load_models
LoadModels(p) ==
    /\ pc[p] = "load"
    /\ loc' = [loc EXCEPT ![p].obj[LoadOrder[loc[p].i]] = FileVersion(LoadOrder[loc[p].i]),
                          ![p].i = @ + 1]
    /\ pc' = [pc EXCEPT ![p] = IF loc[p].i < Len(LoadOrder) THEN "load" ELSE "swap"]
    /\ UNCHANGED <<real_csv, model_dir, metadata, backups, clock, predictor,
                   result, rd, crop_status, harvest_rows, sr, next_version,
                   next_row, acked, returned, last_ok, failed, crashes, calls,
                   trained, number_of_trays, daily_logs, response, encoded>>

\* load_models from its first statement to its last, with no step of another
\* caller in between
LoadModelsAll(p) ==
    /\ pc[p] = "load"
    /\ loc' = [loc EXCEPT ![p].obj = [f \in AllFiles |-> FileVersion(f)],
                          ![p].i = Len(LoadOrder) + 1]
    /\ pc' = [pc EXCEPT ![p] = "swap"]
    /\ UNCHANGED <<real_csv, model_dir, metadata, backups, clock, predictor,
                   result, rd, crop_status, harvest_rows, sr, next_version,
                   next_row, acked, returned, last_ok, failed, crashes, calls,
                   trained, number_of_trays, daily_logs, response, encoded>>

\* self.predictor = YieldPredictionService(...); return result
Swap(p) ==
    /\ pc[p] = "swap"
    /\ predictor' = loc[p].obj
    /\ loc' = [loc EXCEPT ![p] = [NoLocals EXCEPT !.done = Append(loc[p].done, "switch")]]
    /\ Return(p, "retrained")
    /\ UNCHANGED <<real_csv, model_dir, metadata, backups, clock, rd,
                   crop_status, harvest_rows, sr, next_version, next_row, acked,
                   returned, last_ok, failed, crashes, calls, trained,
                   number_of_trays, daily_logs, response, encoded>>

\* the positions inside retrain_models
RetrainPcs == {"rt_load", "rt_train", "rt_stamp", "rt_backup", "save", "rt_mread",
               "rt_mwrite"}

\* Raise with the exception caught inside add_training_data and a result with
\* success = True returned in its place
RaiseSwallowed(p) ==
    /\ pc[p] \in RetrainPcs \cup {"ahd_read", "ahd_write", "sr_csv", "sr_meta", "load"}
    /\ Return(p, "retrained")
    /\ loc' = [loc EXCEPT ![p] = NoLocals]
    /\ failed' = IF pc[p] \in RetrainPcs /\ loc[p].new # 0
                 THEN failed \cup {loc[p].new} ELSE failed
    /\ UNCHANGED <<real_csv, model_dir, metadata, backups, clock, predictor, rd,
                   crop_status, harvest_rows, sr, next_version, next_row, acked,
                   returned, last_ok, crashes, calls, trained, number_of_trays,
                   daily_logs, response, encoded>>

\* the statement at p's position raises (an I/O error, a training failure): nothing
\* catches it in retrain_models or in add_training_data
Raise(p) ==
    /\ pc[p] \in RetrainPcs \cup {"ahd_read", "ahd_write", "sr_csv", "sr_meta", "load"}
    /\ Return(p, IF pc[p] \in RetrainPcs THEN "retrain_raised" ELSE "raised")
    /\ loc' = [loc EXCEPT ![p] = NoLocals]
    /\ failed' = IF pc[p] \in RetrainPcs /\ loc[p].new # 0
                 THEN failed \cup {loc[p].new} ELSE failed
    /\ UNCHANGED <<real_csv, model_dir, metadata, backups, clock, predictor, rd,
                   crop_status, harvest_rows, sr, next_version, next_row, acked,
                   returned, last_ok, crashes, calls, trained, number_of_trays,
                   daily_logs, response, encoded>>

\* MLService.predict_yield binds self.predictor for the call
PredictStart ==
    /\ rd.pc = "idle"
    /\ rd' = [pc |-> "predict", obj |-> predictor]
    /\ UNCHANGED <<real_csv, model_dir, metadata, backups, clock, predictor, pc,
                   loc, result, crop_status, harvest_rows, sr, next_version,
                   next_row, acked, returned, last_ok, failed, crashes, calls,
                   trained, number_of_trays, daily_logs, response, encoded>>

\* YieldPredictionService.predict_yield: encoder, scaler, both regressors and the
\* weights of the bound object
PredictReturn ==
    /\ rd.pc = "predict"
    /\ rd' = [pc |-> "idle", obj |-> Unloaded]
    /\ UNCHANGED <<real_csv, model_dir, metadata, backups, clock, predictor, pc,
                   loc, result, crop_status, harvest_rows, sr, next_version,
                   next_row, acked, returned, last_ok, failed, crashes, calls,
                   trained, number_of_trays, daily_logs, response, encoded>>

\* the process dies and is started again: MLService.__init__ loads the model
\* directory as it is; the files stay, the callers are gone
Restart ==
    /\ crashes < MaxCrashes
    /\ crashes' = crashes + 1
    /\ predictor' = [f \in AllFiles |-> FileVersion(f)]
    /\ pc' = [p \in Procs |-> "idle"]
    /\ loc' = [p \in Procs |-> NoLocals]
    /\ result' = [p \in Procs |-> "none"]
    /\ rd' = [pc |-> "idle", obj |-> Unloaded]
    /\ UNCHANGED <<real_csv, model_dir, metadata, backups, clock, crop_status,
                   harvest_rows, sr, next_version, next_row, acked, returned,
                   last_ok, failed, calls, trained, number_of_trays, daily_logs,
                   response, encoded>>

----------------------------------------------------------------------------
(* YieldPredictionService.predict_yield and MLService.predict_yield *)

\* Python's None, for a column or an argument that carries no value
None == -999

\* the seed of the crops: Seed.avg_yield_grams, ideal_temp, ideal_humidity.
\* Temperatures are in tenths of a degree (ideal_temp = 22.5), humidities in
\* percent, yields in grams.
SeedProfile == [seed_type |-> "radish", name |-> "Radish", base_yield |-> 600,
                ideal_temp |-> 225, ideal_humidity |-> 50]

\* seed_config as the endpoints build it from the Seed row
SeedConfig(seed) == seed

\* a prediction result; yield_efficiency is in thousandths
Result(predicted, base, efficiency, loss, suggestions, status) ==
    [raised |-> FALSE, predicted_yield |-> predicted, base_yield |-> base,
     yield_efficiency |-> efficiency, potential_loss |-> loss,
     suggestions |-> suggestions, status |-> status]

\* the call ends with an exception
Raised ==
    [raised |-> TRUE, predicted_yield |-> None, base_yield |-> None,
     yield_efficiency |-> None, potential_loss |-> None, suggestions |-> <<>>,
     status |-> "raised"]

\* 'potential_loss' of a suggestion: None, f'{loss}g' or '25-40g', as the
\* bounds of the loss in tenths of a gram
Loss(lo, hi) == [lo |-> lo, hi |-> hi]
NoLoss == Loss(None, None)

Suggestion(type, issue) == [type |-> type, issue |-> issue, potential_loss |-> NoLoss]

\* round((temp - ideal_temp) * 8, 1), in tenths of a gram: a difference of d
\* tenths of a degree is 0.8 d grams, which has one decimal
HeatLoss(temp, ideal_temp) == (temp - ideal_temp) * 8

\* the temperature branch with the thresholds themselves included
TemperatureSuggestionsInclusive(temp, ideal_temp) ==
    IF temp >= ideal_temp + 40
    THEN <<[Suggestion("critical", "Heat Stress Detected") EXCEPT
               !.potential_loss = Loss(HeatLoss(temp, ideal_temp),
                                       HeatLoss(temp, ideal_temp))]>>
    ELSE IF temp >= ideal_temp + 20 THEN <<Suggestion("warning", "Above Ideal Temperature")>>
    ELSE IF temp <= ideal_temp - 40 THEN <<Suggestion("warning", "Temperature Too Low")>>
    ELSE <<>>

\* the temperature branch of _generate_suggestions
TemperatureSuggestions(temp, ideal_temp) ==
    IF temp > ideal_temp + 40
    THEN <<[Suggestion("critical", "Heat Stress Detected") EXCEPT
               !.potential_loss = Loss(HeatLoss(temp, ideal_temp),
                                       HeatLoss(temp, ideal_temp))]>>
    ELSE IF temp > ideal_temp + 20 THEN <<Suggestion("warning", "Above Ideal Temperature")>>
    ELSE IF temp < ideal_temp - 40 THEN <<Suggestion("warning", "Temperature Too Low")>>
    ELSE <<>>

\* the humidity branch of _generate_suggestions
HumiditySuggestions(humidity) ==
    IF humidity < 35 THEN <<Suggestion("warning", "Air Too Dry")>>
    ELSE IF humidity > 70 THEN <<Suggestion("warning", "High Humidity")>>
    ELSE <<>>

\* the watering branch of _generate_suggestions
WateringSuggestions(watered) ==
    IF ~watered
    THEN <<[Suggestion("critical", "Missed Watering!") EXCEPT
               !.potential_loss = Loss(250, 400)]>>
    ELSE <<>>

\* _generate_suggestions with the watering check chained to the others by elif
GenerateSuggestionsElif(latest_log, seed_config) ==
    LET found == TemperatureSuggestions(latest_log.temperature, seed_config.ideal_temp)
                 \o HumiditySuggestions(latest_log.humidity)
    IN  IF found # <<>> THEN found
        ELSE IF ~latest_log.watered THEN WateringSuggestions(latest_log.watered)
        ELSE <<Suggestion("success", "Perfect Conditions!")>>

\* _generate_suggestions(latest_log, seed_config, predicted_yield): the three
\* branches appended in the order of the code, or the one success entry
GenerateSuggestions(latest_log, seed_config) ==
    LET found == TemperatureSuggestions(latest_log.temperature, seed_config.ideal_temp)
                 \o HumiditySuggestions(latest_log.humidity)
                 \o WateringSuggestions(latest_log.watered)
    IN  IF found = <<>> THEN <<Suggestion("success", "Perfect Conditions!")>> ELSE found

\* _get_status with strict comparisons
GetStatusStrict(predicted_yield, base_yield) ==
    IF predicted_yield * 100 > 95 * base_yield THEN "excellent"
    ELSE IF predicted_yield * 100 > 85 * base_yield THEN "good"
    ELSE IF predicted_yield * 100 > 70 * base_yield THEN "fair"
    ELSE "poor"

\* _get_status: efficiency = predicted_yield / base_yield against 0.95, 0.85, 0.70
GetStatus(predicted_yield, base_yield) ==
    IF predicted_yield * 100 >= 95 * base_yield THEN "excellent"
    ELSE IF predicted_yield * 100 >= 85 * base_yield THEN "good"
    ELSE IF predicted_yield * 100 >= 70 * base_yield THEN "fair"
    ELSE "poor"

\* the local names predict_yield has assigned when it builds the feature row
AssignedNames ==
    {"num_days", "avg_temp", "avg_humidity", "watering_consistency", "temp_deviation",
     "humidity_deviation", "temp_stress_days", "humidity_stress_days",
     "missed_watering_days", "max_humidity", "min_humidity", "latest_height",
     "seeding_density"}

\* the local names the feature row is built from
FeatureNames ==
    {"avg_temp", "avg_humidity", "temp_deviation", "humidity_deviation",
     "watering_consistency", "temp_stress_days", "humidity_stress_days",
     "missed_watering_days", "max_temp", "min_temp", "max_humidity", "min_humidity",
     "latest_height", "seeding_density"}

\* the outputs of MicrogreensYieldPredictor.predict for one tray, in grams
ModelOutputs == {480, 600}

\* the result predict_yield assembles from the output of the model: yields
\* and loss rounded to a tenth of a gram, the efficiency to a thousandth
Assemble(seed_config, logs, model_output) ==
    Result(model_output, seed_config.base_yield,
           (model_output * 1000) \div seed_config.base_yield,
           seed_config.base_yield - model_output,
           GenerateSuggestions(logs[Len(logs)], seed_config),
           GetStatus(model_output, seed_config.base_yield))

\* YieldPredictionService.predict_yield(seed_config, daily_logs), model_output
\* being what self.predictor.predict returns if it is reached
ServicePredictYield(seed_config, logs, model_output) ==
    IF logs = <<>>
    THEN Result(seed_config.base_yield, seed_config.base_yield, 1000, 0,
                <<Suggestion("success", "Ready to Start!")>>, "excellent")
    ELSE IF FeatureNames \ AssignedNames # {}
    THEN Raised
    ELSE Assemble(seed_config, logs, model_output)

\* self.predictor of MLService is None: the models could not be loaded
PredictorIsNone(pred) == pred = Unloaded

\* MLService.predict_yield(seed_config, daily_logs)
MLPredictYield(pred, seed_config, logs, model_output) ==
    IF PredictorIsNone(pred)
    THEN Result(seed_config.base_yield, seed_config.base_yield, 1000, 0, <<>>, "degraded")
    ELSE ServicePredictYield(seed_config, logs, model_output)

----------------------------------------------------------------------------
(* main.py: the prediction of the endpoints *)

\* no prediction in a response or in a DailyLog row
NoPrediction ==
    [raised |-> FALSE, predicted_yield |-> None, base_yield |-> None,
     yield_efficiency |-> None, potential_loss |-> None, suggestions |-> <<>>,
     status |-> "none"]

\* no log dict
NoLog == [day |-> 0, temperature |-> None, humidity |-> None, watered |-> FALSE]

\* a response: the endpoint, "ok" or the error status, the prediction in its
\* body, whether the DailyLog the request submitted is stored, the trays of the
\* crop, the number of logs the prediction was asked for, and what
\* ml_service.predict_yield returned for one tray; latest_log is the last entry
\* of the list the prediction was asked for, the one predict_yield diagnoses
Response(endpoint, http, prediction, stored, trays, n_logs, per_tray) ==
    [endpoint |-> endpoint, http |-> http, prediction |-> prediction,
     stored |-> stored, trays |-> trays, n_logs |-> n_logs, per_tray |-> per_tray,
     latest_log |-> NoLog]

\* latest_log = daily_logs[-1] of the list handed to predict_yield
Asked(resp, logs) ==
    [resp EXCEPT !.latest_log = IF logs = <<>> THEN NoLog ELSE logs[Len(logs)]]

NoResponse == Response("none", "ok", NoPrediction, FALSE, 0, 0, NoPrediction)

\* the values a request gives for temperature and for humidity
Temperatures == {None, 270}
Humidities == {None, 30}
ActionTypes == {"water_morning", "check_mold"}
\* the day numbers a request can give: DailyLogCreate.day_number and the day of
\* the photo path are plain integers
Days == 0..MaxDays
\* the temperatures and humidities of a latest log: below, at and above the
\* thresholds of _generate_suggestions for the seed
LatestTemperatures == {170, 225, 250, 270}
LatestHumidities == {30, 50, 75}
\* the same around every threshold: ideal_temp - 4, + 2 and + 4 degrees, 35 and
\* 70 percent
DiagnoseTemperatures == {170, 184, 185, 186, 225, 244, 245, 246, 264, 265, 266, 270}
DiagnoseHumidities == {30, 34, 35, 36, 50, 69, 70, 71, 75}
\* predicted yields below, on and above 0.70, 0.85 and 0.95 of a base yield of
\* 600 g, and the base yields: the seed's and the fallback of get_prediction
StatusYields == {0, 419, 420, 421, 509, 510, 511, 569, 570, 571, 600, 660}
BaseYields == {500, 600}

\* x or default
OrElse(x, default) == IF x = None \/ x = 0 THEN default ELSE x

\* x if x is not None else default
IfNotNone(x, default) == IF x = None THEN default ELSE x

\* a DailyLog row; per_tray keeps what ml_service.predict_yield returned for it
DailyLog(day_number, watered, temperature, humidity, predicted_yield, per_tray) ==
    [day_number |-> day_number, watered |-> watered, temperature |-> temperature,
     humidity |-> humidity, predicted_yield |-> predicted_yield, per_tray |-> per_tray]

\* the dict of a log in daily_logs, temperature and humidity falling back to the
\* seed's ideal values with "is not None" or, if falsy, with the truth value
LogDict(log, seed, falsy) ==
    [day |-> log.day_number,
     temperature |-> IF falsy THEN OrElse(log.temperature, seed.ideal_temp)
                     ELSE IfNotNone(log.temperature, seed.ideal_temp),
     humidity |-> IF falsy THEN OrElse(log.humidity, seed.ideal_humidity)
                  ELSE IfNotNone(log.humidity, seed.ideal_humidity),
     watered |-> log.watered]

LogDicts(logs, seed, falsy) == [i \in 1..Len(logs) |-> LogDict(logs[i], seed, falsy)]

\* the rows of a crop ordered by day_number: the rows are kept in that order
InsertByDay(logs, log) ==
    LET before == SelectSeq(logs, LAMBDA l : l.day_number < log.day_number)
        after == SelectSeq(logs, LAMBDA l : l.day_number > log.day_number)
    IN  before \o <<log>> \o after

\* if crop.number_of_trays > 1: prediction['predicted_yield'] *= number_of_trays
ScaledYield(prediction, trays) ==
    IF trays > 1 THEN [prediction EXCEPT !.predicted_yield = @ * trays] ELSE prediction

\* the same with base_yield multiplied as well
ScaledBoth(prediction, trays) ==
    IF trays > 1
    THEN [prediction EXCEPT !.predicted_yield = @ * trays, !.base_yield = @ * trays]
    ELSE prediction

----------------------------------------------------------------------------
(* main.py *)

\* POST /api/crops/{crop_id}/harvest: a Harvest row, crop.status = 'harvested'
harvest_crop(c) ==
    /\ harvest_rows[c] < MaxHarvests
    /\ harvest_rows' = [harvest_rows EXCEPT ![c] = @ + 1]
    /\ crop_status' = [crop_status EXCEPT ![c] = "harvested"]
    /\ UNCHANGED <<real_csv, model_dir, metadata, backups, clock, predictor, pc,
                   loc, result, rd, sr, next_version, next_row, acked, returned,
                   last_ok, failed, crashes, calls, trained, number_of_trays,
                   daily_logs, response, encoded>>

\* POST /api/crops: the Crop row, and the optional initial log with its
\* prediction inside one try block
create_crop(c, trays, has_log, day, watered, temperature, humidity) ==
    /\ crop_status[c] = "none"
    /\ crop_status' = [crop_status EXCEPT ![c] = "active"]
    /\ number_of_trays' = [number_of_trays EXCEPT ![c] = trays]
    /\ IF ~has_log
       THEN /\ UNCHANGED daily_logs
            /\ response' = Response("create_crop", "ok", NoPrediction, FALSE, trays, 0,
                                    NoPrediction)
       ELSE \E m \in ModelOutputs :
              LET daily_log == DailyLog(day, watered, temperature, humidity, None,
                                        NoPrediction)
                  daily_logs_data == LogDicts(<<daily_log>>, SeedProfile, TRUE)
                  prediction == MLPredictYield(predictor, SeedConfig(SeedProfile),
                                               daily_logs_data, m)
                  scaled == ScaledYield(prediction, trays)
              IN  IF prediction.raised
                  THEN /\ UNCHANGED daily_logs
                       /\ response' = Asked(Response("create_crop", "ok", NoPrediction,
                                                     FALSE, trays, 1, prediction),
                                            daily_logs_data)
                  ELSE /\ daily_logs' =
                            [daily_logs EXCEPT ![c] =
                                <<[daily_log EXCEPT !.predicted_yield = scaled.predicted_yield,
                                                    !.per_tray = prediction]>>]
                       /\ response' = Asked(Response("create_crop", "ok", NoPrediction,
                                                     TRUE, trays, 1, prediction),
                                            daily_logs_data)
    /\ UNCHANGED <<real_csv, model_dir, metadata, backups, clock, predictor, pc,
                   loc, result, rd, harvest_rows, sr, next_version, next_row,
                   acked, returned, last_ok, failed, crashes, calls, trained,
                   encoded>>

\* POST /api/crops/{crop_id}/logs
create_daily_log(c, day, watered, temperature, humidity) ==
    /\ crop_status[c] # "none"
    /\ IF \E i \in 1..Len(daily_logs[c]) : daily_logs[c][i].day_number = day
       THEN /\ UNCHANGED daily_logs
            /\ response' = Response("create_daily_log", "400", NoPrediction, FALSE,
                                    number_of_trays[c], 0, NoPrediction)
       ELSE \E m \in ModelOutputs :
              LET daily_log == DailyLog(day, watered, temperature, humidity, None,
                                        NoPrediction)
                  logs_data == LogDicts(daily_logs[c], SeedProfile, TRUE)
                               \o <<LogDict(daily_log, SeedProfile, TRUE)>>
                  prediction == MLPredictYield(predictor, SeedConfig(SeedProfile),
                                               logs_data, m)
                  row == IF prediction.raised THEN daily_log
                         ELSE [daily_log EXCEPT !.predicted_yield = prediction.predicted_yield,
                                                !.per_tray = prediction]
              IN  /\ daily_logs' = [daily_logs EXCEPT ![c] = InsertByDay(@, row)]
                  /\ response' = Asked(Response("create_daily_log", "ok",
                                                [NoPrediction EXCEPT
                                                    !.predicted_yield = row.predicted_yield],
                                                TRUE, number_of_trays[c], Len(logs_data),
                                                prediction),
                                       logs_data)
    /\ UNCHANGED <<real_csv, model_dir, metadata, backups, clock, predictor, pc,
                   loc, result, rd, crop_status, harvest_rows, sr, next_version,
                   next_row, acked, returned, last_ok, failed, crashes, calls,
                   trained, number_of_trays, encoded>>

\* the DailyLog of the day after log_action has created or updated it
ActionLogged(logs, day, action_type, temperature, humidity) ==
    LET waters == action_type \in {"water_morning", "water_evening"}
        found == SelectSeq(logs, LAMBDA l : l.day_number = day)
    IN  IF found = <<>>
        THEN DailyLog(day, waters, temperature, humidity, None, NoPrediction)
        ELSE [found[1] EXCEPT !.watered = @ \/ waters,
                              !.temperature = IfNotNone(temperature, @),
                              !.humidity = IfNotNone(humidity, @)]

\* POST /api/crops/{crop_id}/actions; day is the day number the code derives
\* from the time of the request and crop.start_datetime
log_action(c, day, action_type, temperature, humidity) ==
    /\ crop_status[c] # "none"
    /\ \E m \in ModelOutputs :
          LET log == ActionLogged(daily_logs[c], day, action_type, temperature, humidity)
              all_logs == InsertByDay(daily_logs[c], log)
              daily_logs_data == LogDicts(all_logs, SeedProfile, FALSE)
              prediction == MLPredictYield(predictor, SeedConfig(SeedProfile),
                                           daily_logs_data, m)
              \* on an exception prediction_result = {"error": str(e)}
              scaled == IF prediction.raised THEN prediction
                        ELSE ScaledBoth(prediction, number_of_trays[c])
              row == IF prediction.raised THEN log
                     ELSE [log EXCEPT !.predicted_yield = scaled.predicted_yield,
                                      !.per_tray = prediction]
          IN  /\ daily_logs' = [daily_logs EXCEPT ![c] = InsertByDay(@, row)]
              /\ response' = Asked(Response("log_action", "ok", scaled, TRUE,
                                            number_of_trays[c], Len(all_logs), prediction),
                                   daily_logs_data)
    /\ UNCHANGED <<real_csv, model_dir, metadata, backups, clock, predictor, pc,
                   loc, result, rd, crop_status, harvest_rows, sr, next_version,
                   next_row, acked, returned, last_ok, failed, crashes, calls,
                   trained, number_of_trays, encoded>>

\* GET /api/predictions/{crop_id}
get_prediction(c) ==
    /\ crop_status[c] # "none"
    /\ IF daily_logs[c] = <<>>
       THEN response' = Response("get_prediction", "ok",
                                 Result(SeedProfile.base_yield * number_of_trays[c],
                                        SeedProfile.base_yield * number_of_trays[c],
                                        1000, 0, <<>>, "good"),
                                 TRUE, number_of_trays[c], 0, NoPrediction)
       ELSE \E m \in ModelOutputs :
              LET logs == LogDicts(daily_logs[c], SeedProfile, FALSE)
                  prediction == MLPredictYield(predictor, SeedConfig(SeedProfile), logs, m)
              IN  response' = Asked(Response("get_prediction",
                                             IF prediction.raised THEN "500" ELSE "ok",
                                             IF prediction.raised THEN prediction
                                             ELSE ScaledBoth(prediction, number_of_trays[c]),
                                             TRUE,
                                             number_of_trays[c], Len(daily_logs[c]),
                                             prediction),
                                    logs)
    /\ UNCHANGED <<real_csv, model_dir, metadata, backups, clock, predictor, pc,
                   loc, result, rd, crop_status, harvest_rows, sr, next_version,
                   next_row, acked, returned, last_ok, failed, crashes, calls,
                   trained, number_of_trays, daily_logs, encoded>>

\* POST /api/crops/{crop_id}/logs/{day}/photo: the log of the day is found or
\* created, the day being the integer of the path
upload_photo(c, day) ==
    /\ crop_status[c] # "none"
    /\ IF \E i \in 1..Len(daily_logs[c]) : daily_logs[c][i].day_number = day
       THEN UNCHANGED daily_logs
       ELSE daily_logs' = [daily_logs EXCEPT ![c] =
                             InsertByDay(@, DailyLog(day, FALSE, None, None, None,
                                                     NoPrediction))]
    /\ response' = Response("upload_photo", "ok", NoPrediction, TRUE,
                            number_of_trays[c], 0, NoPrediction)
    /\ UNCHANGED <<real_csv, model_dir, metadata, backups, clock, predictor, pc,
                   loc, result, rd, crop_status, harvest_rows, sr, next_version,
                   next_row, acked, returned, last_ok, failed, crashes, calls,
                   trained, number_of_trays, encoded>>

\* YieldPredictionService.predict_yield called on its own with a history of
\* n_logs entries
predict_yield(n_logs, watered, temperature, humidity) ==
    /\ ~PredictorIsNone(predictor)
    /\ \E m \in ModelOutputs :
          LET logs == [i \in 1..n_logs |->
                          [day |-> i, temperature |-> temperature, humidity |-> humidity,
                           watered |-> watered]]
              prediction == ServicePredictYield(SeedConfig(SeedProfile), logs, m)
          IN  response' = Asked(Response("predict_yield",
                                         IF prediction.raised THEN "raised" ELSE "ok",
                                         prediction, TRUE, 1, n_logs, prediction),
                                logs)
    /\ UNCHANGED <<real_csv, model_dir, metadata, backups, clock, predictor, pc,
                   loc, result, rd, crop_status, harvest_rows, sr, next_version,
                   next_row, acked, returned, last_ok, failed, crashes, calls,
                   trained, number_of_trays, daily_logs, encoded>>

\* _generate_suggestions called on its own with a latest log
generate_suggestions(watered, temperature, humidity) ==
    /\ LET latest_log == [day |-> 1, temperature |-> temperature,
                          humidity |-> humidity, watered |-> watered]
       IN  response' = Asked(Response("generate_suggestions", "ok",
                                      [NoPrediction EXCEPT !.suggestions =
                                          GenerateSuggestions(latest_log,
                                                              SeedConfig(SeedProfile))],
                                      TRUE, 1, 1, NoPrediction),
                             <<latest_log>>)
    /\ UNCHANGED <<real_csv, model_dir, metadata, backups, clock, predictor, pc,
                   loc, result, rd, crop_status, harvest_rows, sr, next_version,
                   next_row, acked, returned, last_ok, failed, crashes, calls,
                   trained, number_of_trays, daily_logs, encoded>>

\* _get_status called on its own
get_status(predicted_yield, base_yield) ==
    /\ response' = Response("get_status", "ok",
                            [NoPrediction EXCEPT
                                !.predicted_yield = predicted_yield,
                                !.base_yield = base_yield,
                                !.status = GetStatus(predicted_yield, base_yield)],
                            TRUE, 1, 0, NoPrediction)
    /\ UNCHANGED <<real_csv, model_dir, metadata, backups, clock, predictor, pc,
                   loc, result, rd, crop_status, harvest_rows, sr, next_version,
                   next_row, acked, returned, last_ok, failed, crashes, calls,
                   trained, number_of_trays, daily_logs, encoded>>

\* the tray scaling of log_action and get_prediction applied to a result the
\* prediction service assembled for one tray
scale_by_trays(trays, watered, temperature, humidity) ==
    /\ \E m \in ModelOutputs :
          LET logs == <<[day |-> 1, temperature |-> temperature, humidity |-> humidity,
                         watered |-> watered]>>
              prediction == Assemble(SeedConfig(SeedProfile), logs, m)
          IN  response' = Asked(Response("scale_by_trays", "ok",
                                         ScaledBoth(prediction, trays), TRUE, trays, 1,
                                         prediction),
                                logs)
    /\ UNCHANGED <<real_csv, model_dir, metadata, backups, clock, predictor, pc,
                   loc, result, rd, crop_status, harvest_rows, sr, next_version,
                   next_row, acked, returned, last_ok, failed, crashes, calls,
                   trained, number_of_trays, daily_logs, encoded>>

\* MLService.predict_yield called on its own with a history of n_logs entries,
\* the models loaded or not
ml_predict_yield(n_logs, watered, temperature, humidity) ==
    /\ \E m \in ModelOutputs :
          LET logs == [i \in 1..n_logs |->
                          [day |-> i, temperature |-> temperature, humidity |-> humidity,
                           watered |-> watered]]
              prediction == MLPredictYield(predictor, SeedConfig(SeedProfile), logs, m)
          IN  response' = Asked(Response("ml_predict_yield",
                                         IF prediction.raised THEN "raised" ELSE "ok",
                                         prediction, TRUE, 1, n_logs, prediction),
                                logs)
    /\ UNCHANGED <<real_csv, model_dir, metadata, backups, clock, predictor, pc,
                   loc, result, rd, crop_status, harvest_rows, sr, next_version,
                   next_row, acked, returned, last_ok, failed, crashes, calls,
                   trained, number_of_trays, daily_logs, encoded>>

----------------------------------------------------------------------------
(* MicrogreensYieldPredictor.prepare_features: the encoding of seed_type *)

\* a seed type is the sequence of its characters
Chars == {"-", "/", "x"}
SeedTypes == UNION {[1..n -> Chars] : n \in 0..MaxTypeLen}

\* seed_encoder.classes_: the seed types of the training data in sorted
\* order; the texts are "x", "x---x" and "xx-/-"
Classes == << <<"x">>, <<"x", "-", "-", "-", "x">>, <<"x", "x", "-", "/", "-">> >>
known_classes == {Classes[i] : i \in 1..Len(Classes)}

\* str.replace(old, new): every occurrence from the left, none overlapping
RECURSIVE Replace(_, _, _)
Replace(s, old, new) ==
    IF Len(s) < Len(old) THEN s
    ELSE IF SubSeq(s, 1, Len(old)) = old
    THEN new \o Replace(SubSeq(s, Len(old) + 1, Len(s)), old, new)
    ELSE <<s[1]>> \o Replace(Tail(s), old, new)

Dashes == <<"-", "-", "-">>
Slashed == <<"-", "/", "-">>

\* safe_encode that hands an unknown value on as it is
SafeEncodeAsIs(val) == [seed_type |-> val, warned |-> FALSE]

\* safe_encode(val): the value, one of its two other spellings, or classes_[0]
\* with a printed warning
SafeEncode(val) ==
    IF val \in known_classes THEN [seed_type |-> val, warned |-> FALSE]
    ELSE IF Replace(val, Dashes, Slashed) \in known_classes
    THEN [seed_type |-> Replace(val, Dashes, Slashed), warned |-> FALSE]
    ELSE IF Replace(val, Slashed, Dashes) \in known_classes
    THEN [seed_type |-> Replace(val, Slashed, Dashes), warned |-> FALSE]
    ELSE [seed_type |-> Classes[1], warned |-> TRUE]

\* seed_encoder.transform: the position in classes_, counted from 0; a value
\* that is not in classes_ raises ValueError
Transform(seed_type) ==
    IF seed_type \in known_classes
    THEN (CHOOSE i \in 1..Len(Classes) : Classes[i] = seed_type) - 1
    ELSE None

\* the row after the encoding of prepare_features(df, fit_encoders=False)
Encoding(val) ==
    [val |-> val, seed_type |-> SafeEncode(val).seed_type,
     warned |-> SafeEncode(val).warned,
     seed_encoded |-> Transform(SafeEncode(val).seed_type),
     raised |-> SafeEncode(val).seed_type \notin known_classes]

NoEncoding == [val |-> <<>>, seed_type |-> <<>>, warned |-> FALSE,
               seed_encoded |-> None, raised |-> FALSE]

\* prepare_features(df, fit_encoders=False) up to seed_encoded, for one row
safe_encode(val) ==
    /\ encoded' = Encoding(val)
    /\ UNCHANGED <<real_csv, model_dir, metadata, backups, clock, predictor, pc,
                   loc, result, rd, crop_status, harvest_rows, sr, next_version,
                   next_row, acked, returned, last_ok, failed, crashes, calls,
                   trained, number_of_trays, daily_logs, response>>

----------------------------------------------------------------------------
Init ==
    /\ real_csv \in {Rows(0), Rows(InitRows)}
    /\ model_dir = [f \in ArtifactFiles |-> 1]
    /\ metadata = SavedMetadata(1)
    /\ backups = [d \in {} |-> EmptyDir]
    /\ clock = 1
    /\ predictor = [f \in AllFiles |-> 1]
    /\ pc = [p \in Procs |-> "idle"]
    /\ loc = [p \in Procs |-> NoLocals]
    /\ result = [p \in Procs |-> "none"]
    /\ rd = [pc |-> "idle", obj |-> Unloaded]
    /\ crop_status = [c \in Crops |-> "active"]
    /\ harvest_rows = [c \in Crops |-> 0]
    /\ next_version = 2
    /\ next_row = Len(real_csv) + 1
    /\ acked = 1..Len(real_csv)
    /\ returned = 1..Len(real_csv)
    /\ sr = [min_new_samples |-> 0, value |-> FALSE]
    /\ calls = 0
    /\ last_ok = 0
    /\ failed = {}
    /\ crashes = 0
    /\ trained = [real_data_weight |-> 0, samples |-> <<>>]
    /\ number_of_trays = [c \in Crops |-> 1]
    /\ daily_logs = [c \in Crops |-> <<>>]
    /\ response = NoResponse
    /\ encoded = NoEncoding

\* The retraining policy on its own: any corpus and any metadata document the
\* model directory may hold, then add_harvest_data and should_retrain calls made
\* one after the other.
InitPolicy ==
    /\ real_csv \in {Rows(n) : n \in 0..PolicyRows}
    /\ metadata \in {SavedMetadata(0), SavedMetadata(1)}
                    \cup {Retrained(SavedMetadata(1), n, 1) : n \in 0..PolicyRows}
    /\ model_dir = [f \in ArtifactFiles |-> 1]
    /\ backups = [d \in {} |-> EmptyDir]
    /\ clock = 1
    /\ predictor = [f \in AllFiles |-> 1]
    /\ pc = [p \in Procs |-> "idle"]
    /\ loc = [p \in Procs |-> NoLocals]
    /\ result = [p \in Procs |-> "none"]
    /\ rd = [pc |-> "idle", obj |-> Unloaded]
    /\ crop_status = [c \in Crops |-> "active"]
    /\ harvest_rows = [c \in Crops |-> 0]
    /\ next_version = 2
    /\ next_row = Len(real_csv) + 1
    /\ acked = 1..Len(real_csv)
    /\ returned = 1..Len(real_csv)
    /\ sr = [min_new_samples |-> 0, value |-> FALSE]
    /\ last_ok = 0
    /\ failed = {}
    /\ crashes = 0
    /\ trained = [real_data_weight |-> 0, samples |-> <<>>]
    /\ number_of_trays = [c \in Crops |-> 1]
    /\ daily_logs = [c \in Crops |-> <<>>]
    /\ response = NoResponse
    /\ encoded = NoEncoding
    /\ calls = 0

NextPolicy ==
    \/ \E c \in Crops, name \in OneSeed : add_harvest_data(c, name)
    \/ \E t \in 1..MaxThreshold : should_retrain(t)

SpecPolicy == InitPolicy /\ [][NextPolicy]_vars

\* ModelRetrainer used on its own: harvests added and retrain_models called with
\* any multiplier, one call after the other.
NextTrain ==
    \/ \E c \in Crops, name \in OneSeed : add_harvest_data(c, name)
    \/ \E w \in Weights : retrain_models(w)

SpecTrain == InitPolicy /\ [][NextTrain]_vars

\* The backend before its first crop, with the models loaded or not
InitApi ==
    /\ real_csv = Rows(0)
    /\ model_dir = [f \in ArtifactFiles |-> 1]
    /\ metadata = SavedMetadata(1)
    /\ backups = [d \in {} |-> EmptyDir]
    /\ clock = 1
    /\ predictor \in {Unloaded, [f \in AllFiles |-> 1]}
    /\ pc = [p \in Procs |-> "idle"]
    /\ loc = [p \in Procs |-> NoLocals]
    /\ result = [p \in Procs |-> "none"]
    /\ rd = [pc |-> "idle", obj |-> Unloaded]
    /\ crop_status = [c \in Crops |-> "none"]
    /\ harvest_rows = [c \in Crops |-> 0]
    /\ next_version = 2
    /\ next_row = 1
    /\ acked = {}
    /\ returned = {}
    /\ sr = [min_new_samples |-> 0, value |-> FALSE]
    /\ calls = 0
    /\ last_ok = 0
    /\ failed = {}
    /\ crashes = 0
    /\ trained = [real_data_weight |-> 0, samples |-> <<>>]
    /\ number_of_trays = [c \in Crops |-> 1]
    /\ daily_logs = [c \in Crops |-> <<>>]
    /\ response = NoResponse
    /\ encoded = NoEncoding

\* The endpoints of main.py that predict, and the prediction service called on
\* its own, one request after the other.
NextApi ==
    \/ \E c \in Crops, trays \in 1..MaxTrays, has_log \in BOOLEAN, day \in 1..MaxDays,
          watered \in BOOLEAN, temperature \in Temperatures, humidity \in Humidities :
          create_crop(c, trays, has_log, day, watered, temperature, humidity)
    \/ \E c \in Crops, day \in 1..MaxDays, watered \in BOOLEAN,
          temperature \in Temperatures, humidity \in Humidities :
          create_daily_log(c, day, watered, temperature, humidity)
    \/ \E c \in Crops, day \in 1..MaxDays, action_type \in ActionTypes,
          temperature \in Temperatures, humidity \in Humidities :
          log_action(c, day, action_type, temperature, humidity)
    \/ \E c \in Crops : get_prediction(c)
    \/ \E n_logs \in 0..MaxDays, watered \in BOOLEAN,
          temperature \in LatestTemperatures, humidity \in LatestHumidities :
          predict_yield(n_logs, watered, temperature, humidity)
    \/ \E watered \in BOOLEAN, temperature \in LatestTemperatures,
          humidity \in LatestHumidities :
          generate_suggestions(watered, temperature, humidity)

SpecApi == InitApi /\ [][NextApi]_vars

\* The endpoints of main.py that write DailyLog rows, one request after the
\* other, with every day number a request can give
NextLogs ==
    \/ \E c \in Crops, has_log \in BOOLEAN, day \in Days, watered \in BOOLEAN,
          temperature \in Temperatures :
          create_crop(c, 1, has_log, day, watered, temperature, None)
    \/ \E c \in Crops, day \in Days, watered \in BOOLEAN, temperature \in Temperatures :
          create_daily_log(c, day, watered, temperature, None)
    \/ \E c \in Crops, day \in 1..MaxDays, action_type \in ActionTypes,
          temperature \in Temperatures :
          log_action(c, day, action_type, temperature, None)
    \/ \E c \in Crops, day \in Days : upload_photo(c, day)

SpecLogs == InitApi /\ [][NextLogs]_vars

\* The functions of the prediction service that judge a log and a prediction,
\* called on their own
NextDiagnose ==
    \/ \E watered \in BOOLEAN, temperature \in DiagnoseTemperatures,
          humidity \in DiagnoseHumidities :
          generate_suggestions(watered, temperature, humidity)
    \/ \E predicted_yield \in StatusYields, base_yield \in BaseYields :
          get_status(predicted_yield, base_yield)
    \/ \E n_logs \in 0..MaxDays, watered \in BOOLEAN,
          temperature \in LatestTemperatures, humidity \in LatestHumidities :
          ml_predict_yield(n_logs, watered, temperature, humidity)
    \/ \E trays \in 1..MaxTrays, watered \in BOOLEAN,
          temperature \in LatestTemperatures, humidity \in LatestHumidities :
          scale_by_trays(trays, watered, temperature, humidity)

SpecDiagnose == InitApi /\ [][NextDiagnose]_vars

\* The encoding of the seed type at inference, for every text of the alphabet
NextEncode == \E val \in SeedTypes : safe_encode(val)

SpecEncode == InitApi /\ [][NextEncode]_vars

\* the steps of add_training_data up to the call of save_models, for harvests
\* of the seeds named
BeforeSave(p, names) ==
    \/ \E c \in Crops, name \in names, logs \in LogInputs :
          AddTrainingData(p, c, name, logs)
    \/ AhdRead(p)
    \/ AhdWrite(p)
    \/ SrCsv(p)
    \/ SrMeta(p)
    \/ RtLoad(p)
    \/ RtTrain(p)
    \/ RtStamp(p)
    \/ RtBackup(p)

\* the steps of add_training_data around save_models and load_models
AfterSave(p) ==
    \/ RtMetaRead(p)
    \/ RtMetaWrite(p)
    \/ Swap(p)
    \/ Raise(p)

\* no caller other than p is inside add_training_data
Alone(p) == \A q \in Procs \ {p} : pc[q] = "idle"

\* The service with its add_training_data calls made one after the other for
\* harvests of one seed, predictions served meanwhile, and restarts of the
\* process.  save_models and load_models take one step for every file.
Next ==
    \/ \E p \in Procs : Alone(p) /\ BeforeSave(p, OneSeed)
    \/ \E p \in Procs : Alone(p) /\ SaveModels(p)
    \/ \E p \in Procs : Alone(p) /\ AfterSave(p)
    \/ \E p \in Procs : Alone(p) /\ LoadModels(p)
    \/ PredictStart
    \/ PredictReturn
    \/ Restart

Spec == Init /\ [][Next]_vars

\* add_training_data called from several threads at once.  The callers
\* interleave between the statements of add_training_data, add_harvest_data,
\* should_retrain and retrain_models; save_models and load_models are one step
\* each, so every behaviour of SpecConc is one the threads can produce.
NextConc ==
    \/ \E p \in Procs : BeforeSave(p, OneSeed)
    \/ \E p \in Procs : SaveModelsAll(p)
    \/ \E p \in Procs : AfterSave(p)
    \/ \E p \in Procs : LoadModelsAll(p)

SpecConc == Init /\ [][NextConc]_vars

\* The endpoints of main.py next to the add_training_data calls of a client of
\* MLService, made one after the other for harvests of any seed.
NextWeb ==
    \/ \E c \in Crops : harvest_crop(c)
    \/ \E p \in Procs : Alone(p) /\ BeforeSave(p, SeedNames)
    \/ \E p \in Procs : Alone(p) /\ AhdWriteCut(p)
    \/ \E p \in Procs : Alone(p) /\ SaveModelsAll(p)
    \/ \E p \in Procs : Alone(p) /\ AfterSave(p)
    \/ \E p \in Procs : Alone(p) /\ LoadModelsAll(p)

SpecWeb == Init /\ [][NextWeb]_vars
----------------------------------------------------------------------------
(* Properties *)

\* s is an initial part of t
IsPrefix(s, t) == Len(s) <= Len(t) /\ \A i \in 1..Len(s) : s[i] = t[i]

\* the order of the stages of a retrain that succeeds
RetrainOrder == <<"train", "backup", "save", "metadata", "switch">>

\* the positions at which a caller has begun to write the model directory and has
\* not written the last of it
WriterPcs == {"rt_backup", "save", "rt_mread", "rt_mwrite"}

\* C1: a retrain_models that fails leaves the active artifact set and the
\* predictor of MLService at the version they had, and every prediction made
\* during or after it is answered by that version: nothing that is active, and
\* no prediction, comes from a version whose retrain raised.
C1_FailedRetrainKeepsPriorVersion ==
    \A v \in failed :
        /\ \A f \in ArtifactFiles : model_dir[f] # v
        /\ metadata.ver # v
        /\ \A f \in AllFiles : predictor[f] # v
        /\ rd.pc = "predict" => \A f \in AllFiles : rd.obj[f] # v

\* C2: in every state, the intermediate points of save_models and the state found
\* after a restart included, the regressors, the scaler, the vocabulary and the
\* metadata of the model directory come from one and the same version.
C2_ActiveSetIsOneVersion ==
    \A f \in ArtifactFiles : model_dir[f] = metadata.ver

\* C3: the stages of a retrain are completed in the order train, backup, save,
\* metadata update, switch of the serving predictor: the predictor is switched
\* only by a caller whose metadata update is done.
C3_SwitchAfterMetadataUpdate ==
    \A p \in Procs :
        /\ IsPrefix(loc[p].done, RetrainOrder)
        /\ pc[p] \in {"load", "swap"} =>
              /\ Len(loc[p].done) = Len(RetrainOrder) - 1
              /\ metadata = Retrained(SavedMetadata(loc[p].new), loc[p].n_real, loc[p].ts)
              /\ \A f \in ArtifactFiles : model_dir[f] = loc[p].new
        /\ result[p] = "retrained" => loc[p].done = RetrainOrder

\* a caller has switched the predictor to the version it trained
C3_Witness ==
    \E p \in Procs :
        /\ result[p] = "retrained"
        /\ loc[p].done = RetrainOrder
        /\ \A f \in AllFiles : predictor[f] = metadata.ver
        /\ metadata.has_retrain

C5_SingleWriter ==
    Cardinality({p \in Procs : pc[p] \in WriterPcs}) <= 1

\* C6: for every corpus, every metadata document and every threshold t >= 1,
\* should_retrain(t) is true exactly when the number of real samples minus the
\* real-sample count the metadata records is at least t; from no recorded count
\* and threshold 10 it is false up to 9 samples and true from the 10th.
C6_ShouldRetrainAtThreshold ==
    LET count == Len(real_csv)
        recorded == IF metadata.ver # 0 /\ metadata.has_retrain
                    THEN metadata.real_samples ELSE 0
    IN  /\ \A t \in 1..MaxThreshold :
              ShouldRetrain(CsvExists(real_csv), Len(real_csv), metadata, t)
                  <=> (count - recorded >= t)
        /\ sr.min_new_samples # 0 => (sr.value <=> count - recorded >= sr.min_new_samples)
        /\ recorded = 0 /\ sr.min_new_samples = MinNewSamples
              => (sr.value <=> count >= MinNewSamples)

\* should_retrain(10) has returned true on the 10th sample since the recorded count
C6_Witness ==
    /\ sr.min_new_samples = MinNewSamples
    /\ sr.value
    /\ Len(real_csv) = GetRealSamples(metadata) + MinNewSamples
    /\ next_row > 1

\* C7: after a retrain_models that returned having loaded N real samples,
\* should_retrain(t) is false for the corpus sizes N to N+t-1 and true from N+t.
C7_NoRetrainBeforeThreshold ==
    last_ok # 0 =>
        \A t \in 1..MaxThreshold :
            ShouldRetrain(CsvExists(real_csv), Len(real_csv), metadata, t)
                <=> (Len(real_csv) >= last_ok + t)

\* C8: once harvest_crop has succeeded for a crop, exactly one sample built from
\* that crop is in the real corpus.
C8_HarvestAppendsSample ==
    \A c \in Crops :
        crop_status[c] = "harvested" =>
            Cardinality({i \in 1..Len(real_csv) : real_csv[i].crop = c}) = 1

\* C9: the real corpus is append-only: every step leaves the corpus it finds as
\* a prefix of the corpus it leaves, a step that changes it is the to_csv of
\* add_harvest_data and adds exactly one row, and the count add_harvest_data
\* returns is the number of rows then in the corpus.
C9_AppendOnly ==
    [][/\ IsPrefix(real_csv, real_csv')
       /\ real_csv' # real_csv =>
             /\ Len(real_csv') = Len(real_csv) + 1
             /\ \E p \in Procs :
                   /\ pc[p] = "ahd_write"
                   /\ <<real_csv'[Len(real_csv')]>> = ToCsv(<<loc[p].row>>)
                   /\ loc'[p].num_samples = Len(real_csv')]_vars

\* C10: whatever the interleaving of add_harvest_data calls, every row whose
\* to_csv was executed is in the corpus, and the counts returned are distinct,
\* consecutive totals.
C10_NoLostAppend ==
    /\ acked \subseteq {real_csv[i].id : i \in 1..Len(real_csv)}
    /\ Cardinality(returned) = Cardinality(acked)
    /\ returned = 1..Cardinality(returned)

\* C11: a step in which add_harvest_data fails (its caller leaves the read or
\* the write of the corpus with an exception) reports the failure to the caller
\* of add_training_data and leaves the real corpus as it was before the call.
C11_FailedWriteKeepsCorpus ==
    [][\A p \in Procs :
          pc[p] \in {"ahd_read", "ahd_write"} /\ pc'[p] = "idle" =>
              /\ result'[p] = "raised"
              /\ real_csv' = real_csv]_vars

\* C12: every row of the real corpus is tagged data_source = "real", and in
\* every training run a real sample is fitted with the multiplier as its weight,
\* a synthetic sample with weight 1, the weight of every real sample being
\* greater than the weight of every synthetic sample.
C12_RealSamplesWeighMore ==
    /\ \A i \in 1..Len(real_csv) : real_csv[i].data_source = "real"
    /\ \A i \in 1..Len(trained.samples) :
          /\ trained.samples[i].data_source = "real" =>
                trained.samples[i].weight = trained.real_data_weight
          /\ trained.samples[i].data_source = "synthetic" =>
                trained.samples[i].weight = 1
    /\ \A i, j \in 1..Len(trained.samples) :
          /\ trained.samples[i].data_source = "real"
          /\ trained.samples[j].data_source = "synthetic"
          => trained.samples[i].weight > trained.samples[j].weight

\* C13: backups are kept for ever: no step removes a backup directory or changes
\* a file a backup directory holds, and every retrain that returns has stored
\* its backup under a key of its own, so that there are as many backup
\* directories as retrains.
C13_BackupsImmutable ==
    [][/\ \A d \in DOMAIN backups :
             /\ d \in DOMAIN backups'
             /\ \A f \in ArtifactFiles :
                   backups[d].files[f] # 0 => backups'[d].files[f] = backups[d].files[f]
             /\ backups[d].meta.ver # 0 => backups'[d].meta = backups[d].meta
       /\ Cardinality(DOMAIN backups') = next_version' - 2]_vars

\* C14: whenever a retrain_models run is in progress, the add_training_data
\* call that started it has returned a result to its caller.
C14_RetrainOutOfBand ==
    \A p \in Procs : pc[p] \in RetrainPcs => result[p] # "none"

\* the results add_training_data returns with success = True
SuccessResults == {"retrained", "not_triggered"}

\* C15: a caller that leaves retrain_models, or the reload of the predictor,
\* before the last statement has not been handed a result with success = True,
\* and a caller that holds the result of a finished retrain has completed every
\* stage of it.
C15_RetrainFailureReported ==
    [][\A p \in Procs :
          /\ pc[p] \in RetrainPcs \cup {"load"} /\ pc'[p] = "idle"
                => result'[p] \notin SuccessResults
          /\ result'[p] = "retrained" => pc[p] = "swap" \/ result[p] = "retrained"]_vars

\* a retrain has failed after training its version and the caller holds the failure
C15_Witness ==
    \E p \in Procs : result[p] = "retrain_raised" /\ failed # {} /\ pc[p] = "idle"
----------------------------------------------------------------------------
(* Predictions *)

\* the result the specification gives for an empty history of a crop of n trays
ReadyToStart(trays) ==
    Result(SeedProfile.base_yield * trays, SeedProfile.base_yield * trays, 1000, 0,
           <<Suggestion("success", "Ready to Start!")>>, "excellent")

\* C16: a prediction for an empty log history, from predict_yield of the
\* prediction service or from get_prediction for a crop without logs, is
\* predicted_yield = base_yield, efficiency 1.0, potential loss 0, status
\* "excellent" and exactly one "ready to start" suggestion.
C16_EmptyHistoryShortCircuit ==
    (response.endpoint \in {"predict_yield", "get_prediction"} /\ response.n_logs = 0)
        => /\ response.http = "ok"
           /\ response.prediction = ReadyToStart(response.trays)

\* C17: predict_yield of the prediction service, called with a history of at
\* least one entry, returns a prediction result and does not raise.
C17_PredictYieldCompletes ==
    (response.endpoint = "predict_yield" /\ response.n_logs >= 1)
        => /\ response.http = "ok"
           /\ ~response.prediction.raised

\* the endpoints that ask ml_service for a prediction
PredictingEndpoints == {"create_crop", "create_daily_log", "log_action", "get_prediction"}

\* C18: when the predictor raises inside create_crop with an initial log,
\* create_daily_log, log_action or get_prediction, the request ends without an
\* error response, the submitted log is stored, and the prediction in the
\* response, if the endpoint returns one, is the base yield with no suggestion.
C18_PredictionFailureDegrades ==
    (response.endpoint \in PredictingEndpoints /\ response.per_tray.raised)
        => /\ response.http = "ok"
           /\ response.stored
           /\ ~response.prediction.raised
           /\ response.prediction.suggestions = <<>>
           /\ response.endpoint \in {"log_action", "get_prediction"}
                  => response.prediction.predicted_yield
                        = SeedProfile.base_yield * response.trays

\* C19: every prediction an endpoint made reports, and stores in the DailyLog
\* row, n times what ml_service returned for one tray, for predicted_yield and
\* for base_yield, n being the trays of the crop.
C19_TrayScaling ==
    /\ (/\ response.endpoint \in PredictingEndpoints
        /\ response.http = "ok"
        /\ response.n_logs >= 1
        /\ ~response.per_tray.raised)
          => /\ response.prediction.predicted_yield # None
                  => response.prediction.predicted_yield
                        = response.trays * response.per_tray.predicted_yield
             /\ response.prediction.base_yield # None
                  => response.prediction.base_yield
                        = response.trays * response.per_tray.base_yield
    /\ \A c \in Crops : \A i \in 1..Len(daily_logs[c]) :
          daily_logs[c][i].predicted_yield # None
              => daily_logs[c][i].predicted_yield
                    = number_of_trays[c] * daily_logs[c][i].per_tray.predicted_yield

\* critical before warning before success
Severity(type) == CASE type = "critical" -> 0 [] type = "warning" -> 1 [] OTHER -> 2

\* C20: the suggestions _generate_suggestions returns are in the order of
\* their severity: no warning before a critical one, no success before a
\* warning or a critical one.
C20_SuggestionsBySeverity ==
    response.endpoint = "generate_suggestions"
        => \A i, j \in 1..Len(response.prediction.suggestions) :
              i < j => Severity(response.prediction.suggestions[i].type)
                          <= Severity(response.prediction.suggestions[j].type)

----------------------------------------------------------------------------
(* Diagnosis *)

TemperatureIssues == {"Heat Stress Detected", "Above Ideal Temperature",
                      "Temperature Too Low"}
HumidityIssues == {"Air Too Dry", "High Humidity"}

\* the positions of a suggestion list whose issue is one of issues
Positions(suggestions, issues) ==
    {i \in 1..Len(suggestions) : suggestions[i].issue \in issues}

\* C21: the suggestions for a latest log hold at most one temperature and at
\* most one humidity suggestion, the critical "Missed Watering!" suggestion if
\* and only if the log is not watered, and a success suggestion if and only if
\* no temperature, humidity or watering suggestion is there, and then nothing
\* else; the list is never empty.
C21_SuggestionRulesIndependent ==
    response.endpoint = "generate_suggestions"
        => LET suggestions == response.prediction.suggestions
               fired == Positions(suggestions, TemperatureIssues \cup HumidityIssues
                                               \cup {"Missed Watering!"})
               success == {i \in 1..Len(suggestions) : suggestions[i].type = "success"}
           IN  /\ Cardinality(Positions(suggestions, TemperatureIssues)) <= 1
               /\ Cardinality(Positions(suggestions, HumidityIssues)) <= 1
               /\ (\E i \in 1..Len(suggestions) :
                      /\ suggestions[i].issue = "Missed Watering!"
                      /\ suggestions[i].type = "critical")
                    <=> ~response.latest_log.watered
               /\ success # {} <=> fired = {}
               /\ success # {} => Len(suggestions) = 1
               /\ suggestions # <<>>

\* a hot, dry and unwatered log: the three rules fire together
C21_Witness ==
    /\ response.endpoint = "generate_suggestions"
    /\ ~response.latest_log.watered
    /\ Len(response.prediction.suggestions) = 3
    /\ Positions(response.prediction.suggestions, TemperatureIssues) # {}
    /\ Positions(response.prediction.suggestions, HumidityIssues) # {}

\* the four statuses of _get_status
Statuses == {"excellent", "good", "fair", "poor"}

\* the status of an efficiency of p / b: 0.95 = 19/20, 0.85 = 17/20, 0.70 = 7/10
Bucket(p, b) ==
    CASE 20 * p >= 19 * b -> "excellent"
      [] 20 * p < 19 * b /\ 20 * p >= 17 * b -> "good"
      [] 20 * p < 17 * b /\ 10 * p >= 7 * b -> "fair"
      [] OTHER -> "poor"

\* _get_status gives the status of the efficiency
StatusOfEfficiency ==
    response.endpoint = "get_status"
        => response.prediction.status
              = Bucket(response.prediction.predicted_yield, response.prediction.base_yield)

\* C22: the status is "excellent" from an efficiency of 0.95, "good" from 0.85,
\* "fair" from 0.70 and "poor" below, and every prediction result for a
\* non-empty log history carries one of these four statuses.
C22_StatusBuckets ==
    /\ StatusOfEfficiency
    /\ (/\ response.endpoint = "ml_predict_yield"
        /\ response.n_logs >= 1
        /\ ~response.prediction.raised)
          => response.prediction.status \in Statuses

\* C22 as the code has it: the same buckets, and a prediction result for a
\* non-empty log history carries one of the four statuses unless the models
\* are not loaded, when its status is "degraded".
C22_StatusBucketsOrDegraded ==
    /\ StatusOfEfficiency
    /\ (/\ response.endpoint = "ml_predict_yield"
        /\ response.n_logs >= 1
        /\ ~response.prediction.raised)
          => IF PredictorIsNone(predictor)
             THEN response.prediction.status = "degraded"
             ELSE response.prediction.status \in Statuses

\* an efficiency of exactly 0.95 is "excellent"
C22_Witness ==
    /\ response.endpoint = "get_status"
    /\ response.prediction.predicted_yield = 570
    /\ response.prediction.base_yield = 600
    /\ response.prediction.status = "excellent"

\* the suggestions of a list whose issue is one of issues, without their loss
Found(suggestions, issues) ==
    {[type |-> suggestions[i].type, issue |-> suggestions[i].issue] :
        i \in Positions(suggestions, issues)}

\* C25: with t the temperature and h the humidity of the latest log and i the
\* ideal temperature, t > i + 4 gives the critical heat stress suggestion with
\* a loss of 8 (t - i) grams, i + 2 < t <= i + 4 the warning above ideal,
\* t < i - 4 the warning too cold and any other t no temperature suggestion;
\* h < 35 gives the warning too dry, h > 70 the warning of high humidity and
\* any other h no humidity suggestion.
C25_SuggestionThresholds ==
    response.endpoint = "generate_suggestions"
        => LET suggestions == response.prediction.suggestions
               t == response.latest_log.temperature
               h == response.latest_log.humidity
               i == SeedProfile.ideal_temp
               temperature == Found(suggestions, TemperatureIssues)
               humidity == Found(suggestions, HumidityIssues)
           IN  /\ t > i + 40
                    => /\ temperature = {[type |-> "critical",
                                          issue |-> "Heat Stress Detected"]}
                       /\ \A k \in Positions(suggestions, TemperatureIssues) :
                             suggestions[k].potential_loss = Loss(8 * (t - i), 8 * (t - i))
               /\ (i + 20 < t /\ t <= i + 40)
                    => temperature = {[type |-> "warning",
                                       issue |-> "Above Ideal Temperature"]}
               /\ t < i - 40
                    => temperature = {[type |-> "warning", issue |-> "Temperature Too Low"]}
               /\ (i - 40 <= t /\ t <= i + 20) => temperature = {}
               /\ h < 35 => humidity = {[type |-> "warning", issue |-> "Air Too Dry"]}
               /\ h > 70 => humidity = {[type |-> "warning", issue |-> "High Humidity"]}
               /\ (35 <= h /\ h <= 70) => humidity = {}

\* 27 degrees against an ideal of 22.5: heat stress with a loss of 36.0 g
C25_Witness ==
    /\ response.endpoint = "generate_suggestions"
    /\ response.latest_log = [day |-> 1, temperature |-> 270, humidity |-> 50,
                              watered |-> TRUE]
    /\ response.prediction.suggestions =
          <<[type |-> "critical", issue |-> "Heat Stress Detected",
             potential_loss |-> Loss(360, 360)]>>

----------------------------------------------------------------------------
(* Encoding *)

\* the spellings of a seed type with the other separator
Alternates(val) == {Replace(val, Dashes, Slashed), Replace(val, Slashed, Dashes)}

\* C23: at inference a seed type of the vocabulary is encoded to its own
\* index; a seed type that is not in the vocabulary is encoded to the index of
\* its spelling with the other separator if that is in the vocabulary, and
\* otherwise to the one fallback index, with a warning; the encoding never
\* raises.
C23_EncodingNeverRaises ==
    encoded # NoEncoding
        => /\ ~encoded.raised
           /\ encoded.seed_encoded \in 0..(Len(Classes) - 1)
           /\ encoded.val \in known_classes
                  => /\ Classes[encoded.seed_encoded + 1] = encoded.val
                     /\ ~encoded.warned
           /\ (encoded.val \notin known_classes
                /\ Alternates(encoded.val) \cap known_classes # {})
                  => /\ Classes[encoded.seed_encoded + 1] \in Alternates(encoded.val)
                     /\ ~encoded.warned
           /\ (encoded.val \notin known_classes
                /\ Alternates(encoded.val) \cap known_classes = {})
                  => /\ encoded.seed_encoded = 0
                     /\ encoded.warned

\* an unknown seed type is encoded to the fallback index
C23_Witness ==
    /\ encoded.val = <<"x", "x">>
    /\ encoded.seed_encoded = 0
    /\ encoded.warned

----------------------------------------------------------------------------
(* Artifacts and corpus *)

\* C27: the backup directory a retrain writes holds every component of the
\* artifact set that was active before the retrain: both regressors, the
\* scaler, the vocabulary and the metadata, as the model directory held them.
C27_BackupIsComplete ==
    [][\A d \in DOMAIN backups' :
          (d \notin DOMAIN backups \/ backups'[d] # backups[d])
              => /\ \A f \in ArtifactFiles : backups'[d].files[f] = model_dir[f]
                 /\ MetadataExists(metadata) => backups'[d].meta = metadata]_vars

\* the number of real samples of a training run
RealCount(samples) ==
    Cardinality({i \in 1..Len(samples) : samples[i].data_source = "real"})

\* C28: whenever the model directory holds the files and the metadata of the
\* version trained last, the real-sample count should_retrain reads from
\* the metadata is the number of real samples that version was trained on.
C28_MetadataCountsActiveModel ==
    (/\ MetadataExists(metadata)
     /\ metadata.ver = next_version - 1
     /\ \A f \in ArtifactFiles : model_dir[f] = next_version - 1)
        => GetRealSamples(metadata) = RealCount(trained.samples)

\* C29: every real sample a retrain prepares holds a value in every feature
\* column that prepare_features selects.
C29_RealSamplesHaveEveryFeature ==
    \A i \in 1..Len(trained.samples) :
        trained.samples[i].data_source = "real" => trained.samples[i].empty = {}

----------------------------------------------------------------------------
(* DailyLog rows *)

\* C24: no crop has two daily logs with the same day_number, and every stored
\* day_number is at least 1.
C24_DayNumbersUniqueAndPositive ==
    \A c \in Crops :
        /\ \A i, j \in 1..Len(daily_logs[c]) :
              i # j => daily_logs[c][i].day_number # daily_logs[c][j].day_number
        /\ \A i \in 1..Len(daily_logs[c]) : daily_logs[c][i].day_number >= 1

\* the highest day_number among the logs of a crop
LastDay(c) ==
    CHOOSE d \in {daily_logs[c][i].day_number : i \in 1..Len(daily_logs[c])} :
        \A i \in 1..Len(daily_logs[c]) : daily_logs[c][i].day_number <= d

\* C26: the log an endpoint hands to predict_yield as the latest, the one that
\* is diagnosed, is the stored log with the highest day_number of the crop
\* (read for crops whose day numbers are all at least 1).
C26_LatestLogIsLastDay ==
    (/\ response.endpoint \in PredictingEndpoints
     /\ response.http = "ok"
     /\ response.stored
     /\ response.n_logs >= 1
     /\ \A c \in Crops : \A i \in 1..Len(daily_logs[c]) : daily_logs[c][i].day_number >= 1)
        => \A c \in Crops : daily_logs[c] # <<>> => response.latest_log.day = LastDay(c)

====
